---- MODULE Spec2Model ----
(***************************************************************************)
(* Model of rslib/src/i18n/mod.rs: locale resolution (I18n::new), the      *)
(* per-category bundle chain (I18nCategory::new) and message lookup        *)
(* (I18nCategory::tr / trn / tr_).                                         *)
(*                                                                         *)
(* Locale codes are sequences of one-character strings, so that parsing    *)
(* (splitting on '-' / '_', length and character-class checks, case        *)
(* canonicalisation) is computed and not assumed.  Formatted text is a     *)
(* sequence of string fragments whose concatenation is the Rust string.    *)
(***************************************************************************)
EXTENDS Naturals, Sequences, FiniteSets, TLC

VARIABLES
    pc,            \* "start" | "root" | "ready" | "panicked"
    cfg_test,      \* the value of cfg!(test) in this build
    locale_codes,  \* the locale_codes argument I18n::new was called with
    langs,         \* I18n.langs
    supported,     \* I18n.supported
    locale_folder, \* I18n.locale_folder
    file,          \* the TranslationFile of the catalog held
    bundles,       \* I18nCategory.bundles
    reads,         \* paths handed to fs::read_to_string by the last get()
    log,           \* error!() records written by the last operation
    op,            \* the last operation performed
    first_call,    \* the first tr / trn call made on the catalog held
    last_call      \* the latest tr / trn call made on the catalog held

vars == <<pc, cfg_test, locale_codes, langs, supported, locale_folder, file,
          bundles, reads, log, op, first_call, last_call>>

\* Longest preference list handed to I18n::new.
MaxCodes == 2

-----------------------------------------------------------------------------
(* Characters and locale-tag parsing (str::parse::<LanguageIdentifier>).    *)

LowerChars == <<"a","b","c","d","e","f","g","h","i","j","k","l","m",
                "n","o","p","q","r","s","t","u","v","w","x","y","z">>
UpperChars == <<"A","B","C","D","E","F","G","H","I","J","K","L","M",
                "N","O","P","Q","R","S","T","U","V","W","X","Y","Z">>
DigitChars == {"0","1","2","3","4","5","6","7","8","9"}

Range(s) == {s[i] : i \in DOMAIN s}

IsAlpha(c) == c \in Range(LowerChars) \cup Range(UpperChars)
IsDigit(c) == c \in DigitChars
AllAlpha(s) == \A i \in DOMAIN s : IsAlpha(s[i])
AllDigit(s) == \A i \in DOMAIN s : IsDigit(s[i])
AllAlnum(s) == \A i \in DOMAIN s : IsAlpha(s[i]) \/ IsDigit(s[i])

ToLowerChar(c) ==
    IF c \in Range(UpperChars)
    THEN LowerChars[CHOOSE i \in DOMAIN UpperChars : UpperChars[i] = c]
    ELSE c
ToUpperChar(c) ==
    IF c \in Range(LowerChars)
    THEN UpperChars[CHOOSE i \in DOMAIN LowerChars : LowerChars[i] = c]
    ELSE c
ToLower(s) == [i \in DOMAIN s |-> ToLowerChar(s[i])]
ToUpper(s) == [i \in DOMAIN s |-> ToUpperChar(s[i])]
ToTitle(s) == [i \in DOMAIN s |-> IF i = 1 THEN ToUpperChar(s[i]) ELSE ToLowerChar(s[i])]

RECURSIVE SplitAcc(_, _, _)
SplitAcc(s, cur, acc) ==
    IF s = <<>> THEN Append(acc, cur)
    ELSE IF Head(s) \in {"-", "_"}
         THEN SplitAcc(Tail(s), <<>>, Append(acc, cur))
         ELSE SplitAcc(Tail(s), Append(cur, Head(s)), acc)

\* t.split(|c| c == '-' || c == '_')
SplitSubtags(s) == SplitAcc(s, <<>>, <<>>)

IsLanguageSubtag(t) == Len(t) \in {2, 3, 5, 6, 7, 8} /\ AllAlpha(t)
IsScriptSubtag(t) == Len(t) = 4 /\ AllAlpha(t)
IsRegionSubtag(t) == (Len(t) = 2 /\ AllAlpha(t)) \/ (Len(t) = 3 /\ AllDigit(t))
IsVariantSubtag(t) ==
    /\ AllAlnum(t)
    /\ \/ Len(t) \in {5, 6, 7, 8}
       \/ Len(t) = 4 /\ IsDigit(t[1])

Und == <<"u", "n", "d">>
NoSubtag == <<>>

\* The subtags after the language: position "script" -> "region" -> "variant".
RECURSIVE ParseRest(_, _, _)
ParseRest(tags, position, id) ==
    IF tags = <<>> THEN [ok |-> TRUE, id |-> id]
    ELSE LET t == Head(tags) IN
         IF position = "script" /\ IsScriptSubtag(t)
         THEN ParseRest(Tail(tags), "region", [id EXCEPT !.script = ToTitle(t)])
         ELSE IF position \in {"script", "region"} /\ IsRegionSubtag(t)
         THEN ParseRest(Tail(tags), "variant", [id EXCEPT !.region = ToUpper(t)])
         ELSE IF IsVariantSubtag(t)
         THEN ParseRest(Tail(tags), "variant",
                        [id EXCEPT !.variants = @ \cup {ToLower(t)}])
         ELSE [ok |-> FALSE, id |-> id]

\* code.parse::<LanguageIdentifier>(): Ok(id) or Err.
ParseLanguageIdentifier(code) ==
    LET tags == SplitSubtags(code)
        lang == ToLower(Head(tags))
        id0  == [language |-> IF lang = Und THEN NoSubtag ELSE lang,
                 script |-> NoSubtag, region |-> NoSubtag, variants |-> {}]
    IN IF ~IsLanguageSubtag(Head(tags))
       THEN [ok |-> FALSE, id |-> id0]
       ELSE ParseRest(Tail(tags), "script", id0)

get_language(id) == IF id.language = NoSubtag THEN Und ELSE id.language
\* Option<&str>: NoSubtag stands for None.
get_region(id) == id.region

-----------------------------------------------------------------------------
(* Dialects and translation files.                                          *)

LanguageDialect == {"Japanese", "ChineseMainland", "ChineseTaiwan"}
NoDialect == "None"

\* lang_dialect with the region arm matching any region, not only "TW".
lang_dialect_any_region(lang) ==
    IF get_language(lang) = <<"j", "a">> THEN "Japanese"
    ELSE IF get_language(lang) = <<"z", "h">>
         THEN IF get_region(lang) # NoSubtag
              THEN "ChineseTaiwan"
              ELSE "ChineseMainland"
         ELSE NoDialect

lang_dialect(lang) ==
    IF get_language(lang) = <<"j", "a">> THEN "Japanese"
    ELSE IF get_language(lang) = <<"z", "h">>
         THEN IF get_region(lang) = <<"T", "W">>
              THEN "ChineseTaiwan"
              ELSE "ChineseMainland"
         ELSE NoDialect

\* The value standing for the todo!() arm: evaluating it panics.
Todo == "todo!()"

dialect_file_locale(dialect) ==
    CASE dialect = "Japanese" -> "ja"
      [] dialect = "ChineseMainland" -> "zh"
      [] dialect = "ChineseTaiwan" -> Todo

TranslationFile == {"Test", "MediaCheck"}

file_name(f) == IF f = "MediaCheck" THEN "media-check.ftl" ELSE "test.ftl"

-----------------------------------------------------------------------------
(* Translation text (.ftl) and the Fluent engine as the code uses it.       *)
(* A text is a sequence of entries; a message entry has an id and an        *)
(* optional value pattern (a message with attributes only has none); a      *)
(* junk entry is what the parser makes of malformed syntax.  A pattern is   *)
(* a sequence of elements: literal text, a variable placeable {$name}, or   *)
(* a select expression {$name -> [one] ... *[other] ...}.                   *)

NoValue == <<>>

TextEl(s) == [t |-> "text", s |-> s, name |-> "", one |-> <<>>, other |-> <<>>]
VarEl(n) == [t |-> "var", s |-> <<>>, name |-> n, one |-> <<>>, other |-> <<>>]
SelectEl(n, one, other) == [t |-> "select", s |-> <<>>, name |-> n, one |-> one, other |-> other]

Message(id, value) == [kind |-> "message", id |-> id, value |-> value]
Junk == [kind |-> "junk", id |-> "", value |-> NoValue]

\* FluentArgs values.
NoArg == [t |-> "none", n |-> 0, s |-> <<>>]
Num(n) == [t |-> "num", n |-> n, s |-> <<>>]
Str(s) == [t |-> "str", n |-> 0, s |-> s]

ArgNames == {"one", "two", "hats", "count"}
NoArgs == [a \in ArgNames |-> NoArg]

\* FluentResource::try_new: Err when any entry is junk.
FluentResource_try_new(text) ==
    [ok |-> \A i \in DOMAIN text : text[i].kind = "message", res |-> text]

\* FluentBundle::new(locales): no messages yet, isolation marks on.
FluentBundle_new(locales) ==
    [locales |-> locales, messages |-> <<>>, use_isolating |-> TRUE]

\* FluentBundle::add_resource: Err when an id is defined twice.
FluentBundle_add_resource(bundle, res) ==
    [ok |-> \A i, j \in DOMAIN res : res[i].id = res[j].id => i = j,
     bundle |-> [bundle EXCEPT !.messages = @ \o res]]

\* FluentBundle::get_message: the index of the message, 0 for None.
get_message(bundle, key) ==
    IF \E i \in DOMAIN bundle.messages : bundle.messages[i].id = key
    THEN CHOOSE i \in DOMAIN bundle.messages :
            /\ bundle.messages[i].id = key
            /\ \A j \in DOMAIN bundle.messages : bundle.messages[j].id = key => i <= j
    ELSE 0

\* The plural rules a bundle uses: those of the first of its locales that
\* has any, English otherwise.
PluralRuleLanguages == {<<"e", "n">>, <<"j", "a">>, <<"z", "h">>}

RECURSIVE PluralLanguage(_)
PluralLanguage(locales) ==
    IF locales = <<>> THEN <<"e", "n">>
    ELSE IF get_language(Head(locales)) \in PluralRuleLanguages
         THEN get_language(Head(locales))
         ELSE PluralLanguage(Tail(locales))

\* CLDR cardinal category of a natural number.
PluralCategory(locales, n) ==
    IF PluralLanguage(locales) = <<"e", "n">> /\ n = 1 THEN "one" ELSE "other"

FSI == "\\u{2068}"
PDI == "\\u{2069}"

Isolate(bundle, pat, s) ==
    IF bundle.use_isolating /\ Len(pat) > 1 THEN <<FSI>> \o s \o <<PDI>> ELSE s

ValueText(v) == IF v.t = "num" THEN <<ToString(v.n)>> ELSE v.s

\* FluentBundle::format_pattern: the text and the errors pushed to errs.
RECURSIVE FormatFrom(_, _, _, _)
FormatFrom(bundle, pat, args, i) ==
    IF i > Len(pat) THEN [text |-> <<>>, errs |-> <<>>]
    ELSE
      LET el   == pat[i]
          rest == FormatFrom(bundle, pat, args, i + 1)
          arg  == args[el.name]
          here ==
            CASE el.t = "text" -> [text |-> el.s, errs |-> <<>>]
              [] el.t = "var" ->
                    IF arg.t = "none"
                    THEN [text |-> Isolate(bundle, pat, <<"{$", el.name, "}">>),
                          errs |-> <<el.name>>]
                    ELSE [text |-> Isolate(bundle, pat, ValueText(arg)), errs |-> <<>>]
              [] el.t = "select" ->
                    LET variant ==
                          IF \/ arg.t = "num" /\ PluralCategory(bundle.locales, arg.n) = "one"
                             \/ arg.t = "str" /\ arg.s = <<"one">>
                          THEN el.one ELSE el.other
                        sub == FormatFrom(bundle, variant, args, 1)
                    IN [text |-> Isolate(bundle, pat, sub.text),
                        errs |-> (IF arg.t = "none" THEN <<el.name>> ELSE <<>>) \o sub.errs]
      IN [text |-> here.text \o rest.text, errs |-> here.errs \o rest.errs]

format_pattern(bundle, pat, args) == FormatFrom(bundle, pat, args, 1)

-----------------------------------------------------------------------------
(* Resources: the embedded fallback texts and the files on disk.            *)

\* tests/support/test.ftl, embedded by include_str!.
TestFtl ==
    << Message("valid-key", <<TextEl(<<"a valid key">>)>>),
       Message("only-in-english", <<TextEl(<<"not translated">>)>>),
       Message("two-args-key",
               <<TextEl(<<"two args: ">>), VarEl("one"), TextEl(<<" and ">>), VarEl("two")>>),
       Message("plural",
               <<TextEl(<<"You have ">>),
                 SelectEl("hats", <<TextEl(<<"1 hat">>)>>,
                                  <<VarEl("hats"), TextEl(<<" hats">>)>>),
                 TextEl(<<".">>)>>) >>

\* src/i18n/media-check.ftl, embedded by include_str!.
MediaCheckFtl ==
    << Message("missing-count", <<TextEl(<<"Missing files: ">>), VarEl("count")>>) >>

data_for_fallback(f) == IF f = "MediaCheck" THEN MediaCheckFtl ELSE TestFtl

\* The resource roots a caller may name, and what fs::read_to_string finds
\* under them.  Every other path is unreadable.
Folders == {"support", "shadow"}

JaTestFtl ==
    << Message("valid-key", <<TextEl(<<"kii">>)>>),
       Message("two-args-key", <<VarEl("one"), TextEl(<<"to">>), VarEl("two")>>) >>

\* invalid-key is translated to the very text of the missing-key diagnostic.
ZhTestFtl ==
    << Message("valid-key", <<TextEl(<<"youxiao">>)>>),
       Message("invalid-key", <<TextEl(<<"Missing translation key: ", "invalid-key">>)>>),
       Message("plural", <<VarEl("hats"), TextEl(<<" ding maozi">>)>>) >>

\* valid-key and invalid-key have attributes only, no value.
JaShadowFtl ==
    << Message("valid-key", NoValue),
       Message("invalid-key", NoValue),
       Message("two-args-key", <<VarEl("one"), TextEl(<<"to">>), VarEl("two")>>) >>

DuplicateFtl ==
    << Message("valid-key", <<TextEl(<<"youxiao">>)>>),
       Message("valid-key", <<TextEl(<<"chongfu">>)>>) >>

MalformedFtl == << Message("valid-key", <<TextEl(<<"kii">>)>>), Junk >>

ReadErr == [ok |-> FALSE, text |-> <<>>]
ReadOk(text) == [ok |-> TRUE, text |-> text]

\* fs::read_to_string(&path), path = <<root, locale folder, file name>>.
read_to_string(path) ==
    CASE path = <<"support", "ja", "test.ftl">> -> ReadOk(JaTestFtl)
      [] path = <<"support", "zh", "test.ftl">> -> ReadOk(DuplicateFtl)
      [] path = <<"support", "ja", "media-check.ftl">> -> ReadOk(MalformedFtl)
      [] path = <<"shadow", "ja", "test.ftl">> -> ReadOk(JaShadowFtl)
      [] path = <<"shadow", "zh", "test.ftl">> -> ReadOk(ZhTestFtl)
      [] OTHER -> ReadErr

-----------------------------------------------------------------------------
(* The functions of mod.rs.                                                 *)

\* Some(text) / None, the path read and the record logged; panic when the
\* dialect's folder name is the todo!() arm.
data_for_lang_and_file(dialect, f, locales) ==
    LET dir  == dialect_file_locale(dialect)
        path == <<locales, dir, file_name(f)>>
        r    == read_to_string(path)
    IN IF dir = Todo
       THEN [panic |-> TRUE, ok |-> FALSE, text |-> <<>>, reads |-> <<>>, log |-> <<>>]
       ELSE [panic |-> FALSE, ok |-> r.ok, text |-> r.text, reads |-> <<path>>,
             log |-> IF r.ok THEN <<>> ELSE <<"Unable to read translation file">>]

\* Some(bundle) / None and the records logged.
get_bundle(text, locales) ==
    LET res   == FluentResource_try_new(text)
        added == FluentBundle_add_resource(FluentBundle_new(locales), res.res)
    IN IF ~res.ok
       THEN [ok |-> FALSE, bundle |-> FluentBundle_new(locales),
             log |-> <<"Unable to parse translations file">>]
       ELSE IF ~added.ok
       THEN [ok |-> FALSE, bundle |-> FluentBundle_new(locales),
             log |-> <<"Duplicate key detected in translation file">>]
       ELSE [ok |-> TRUE, bundle |-> added.bundle, log |-> <<>>]

\* if cfg!(test) { bundle.set_use_isolating(false) }
set_isolating(bundle, test) ==
    IF test THEN [bundle EXCEPT !.use_isolating = FALSE] ELSE bundle

EnUSCode == <<"e", "n", "_", "U", "S">>

\* The loop of I18n::new over locale_codes[i..].
RECURSIVE NewLoop(_, _, _)
NewLoop(codes, i, acc) ==
    IF i > Len(codes) THEN acc
    ELSE LET p == ParseLanguageIdentifier(codes[i])
             d == lang_dialect(p.id)
         IN IF ~p.ok THEN NewLoop(codes, i + 1, acc)
            ELSE NewLoop(codes, i + 1,
                   [langs |-> Append(acc.langs, p.id),
                    supported |-> IF d # NoDialect
                                  THEN Append(acc.supported, d)
                                  ELSE acc.supported])

\* I18n::new pushing the fallback locale only when it is not yet listed.
I18n_new_fallback_once(codes, folder) ==
    LET r  == NewLoop(codes, 1, [langs |-> <<>>, supported |-> <<>>])
        en == ParseLanguageIdentifier(EnUSCode)
    IN [panic |-> ~en.ok,
        langs |-> IF en.id \in Range(r.langs) THEN r.langs ELSE Append(r.langs, en.id),
        supported |-> r.supported,
        locale_folder |-> folder]

RECURSIVE NewLoopDedup(_, _, _)
NewLoopDedup(codes, i, acc) ==
    IF i > Len(codes) THEN acc
    ELSE LET p == ParseLanguageIdentifier(codes[i])
             d == lang_dialect(p.id)
         IN IF ~p.ok THEN NewLoopDedup(codes, i + 1, acc)
            ELSE NewLoopDedup(codes, i + 1,
                   [langs |-> Append(acc.langs, p.id),
                    supported |-> IF d # NoDialect /\ d \notin Range(acc.supported)
                                  THEN Append(acc.supported, d)
                                  ELSE acc.supported])

\* I18n::new pushing each dialect once only.
I18n_new_dedup_supported(codes, folder) ==
    LET r  == NewLoopDedup(codes, 1, [langs |-> <<>>, supported |-> <<>>])
        en == ParseLanguageIdentifier(EnUSCode)
    IN [panic |-> ~en.ok,
        langs |-> Append(r.langs, en.id),
        supported |-> r.supported,
        locale_folder |-> folder]

\* I18n::new: the fields of Self; panic when "en_US" fails to parse.
I18n_new(codes, folder) ==
    LET r  == NewLoop(codes, 1, [langs |-> <<>>, supported |-> <<>>])
        en == ParseLanguageIdentifier(EnUSCode)
    IN [panic |-> ~en.ok,
        langs |-> Append(r.langs, en.id),
        supported |-> r.supported,
        locale_folder |-> folder]

\* The loop of I18nCategory::new over preferred[i..].
RECURSIVE CategoryLoop(_, _, _, _, _, _, _)
CategoryLoop(langs_, preferred, f, folder, test, i, acc) ==
    IF i > Len(preferred) THEN acc
    ELSE LET data == data_for_lang_and_file(preferred[i], f, folder)
             got  == get_bundle(data.text, langs_)
         IN IF data.panic THEN [acc EXCEPT !.panic = TRUE]
            ELSE IF ~data.ok
            THEN CategoryLoop(langs_, preferred, f, folder, test, i + 1,
                   [acc EXCEPT !.reads = @ \o data.reads, !.log = @ \o data.log])
            ELSE IF ~got.ok
            THEN CategoryLoop(langs_, preferred, f, folder, test, i + 1,
                   [acc EXCEPT !.reads = @ \o data.reads,
                               !.log = @ \o got.log \o <<"Failed to create bundle">>])
            ELSE CategoryLoop(langs_, preferred, f, folder, test, i + 1,
                   [acc EXCEPT !.reads = @ \o data.reads,
                               !.bundles = Append(@, set_isolating(got.bundle, test))])

RECURSIVE CategoryLoopBreak(_, _, _, _, _, _, _)
CategoryLoopBreak(langs_, preferred, f, folder, test, i, acc) ==
    IF i > Len(preferred) THEN acc
    ELSE LET data == data_for_lang_and_file(preferred[i], f, folder)
             got  == get_bundle(data.text, langs_)
         IN IF data.panic THEN [acc EXCEPT !.panic = TRUE]
            ELSE IF ~data.ok
            THEN [acc EXCEPT !.reads = @ \o data.reads, !.log = @ \o data.log]
            ELSE IF ~got.ok
            THEN [acc EXCEPT !.reads = @ \o data.reads,
                             !.log = @ \o got.log \o <<"Failed to create bundle">>]
            ELSE CategoryLoopBreak(langs_, preferred, f, folder, test, i + 1,
                   [acc EXCEPT !.reads = @ \o data.reads,
                               !.bundles = Append(@, set_isolating(got.bundle, test))])

\* I18nCategory::new leaving the loop at the first dialect that fails.
I18nCategory_new_break(langs_, preferred, f, folder, test) ==
    LET acc == CategoryLoopBreak(langs_, preferred, f, folder, test, 1,
                  [panic |-> FALSE, bundles |-> <<>>, reads |-> <<>>, log |-> <<>>])
        fallback == get_bundle(data_for_fallback(f), langs_)
    IN IF acc.panic THEN acc
       ELSE IF ~fallback.ok THEN [acc EXCEPT !.panic = TRUE, !.log = @ \o fallback.log]
       ELSE [acc EXCEPT !.bundles = Append(@, set_isolating(fallback.bundle, test))]

\* I18nCategory::new: the bundles of Self, or a panic (the todo!() folder
\* name, or the unwrap() of a fallback bundle that failed to build).
I18nCategory_new(langs_, preferred, f, folder, test) ==
    LET acc == CategoryLoop(langs_, preferred, f, folder, test, 1,
                  [panic |-> FALSE, bundles |-> <<>>, reads |-> <<>>, log |-> <<>>])
        fallback == get_bundle(data_for_fallback(f), langs_)
    IN IF acc.panic THEN acc
       ELSE IF ~fallback.ok THEN [acc EXCEPT !.panic = TRUE, !.log = @ \o fallback.log]
       ELSE [acc EXCEPT !.bundles = Append(@, set_isolating(fallback.bundle, test))]

MissingKey(key) == <<"Missing translation key: ", key>>

\* I18nCategory::tr_ from bundle i on: the text returned and what is logged.
RECURSIVE tr_from(_, _, _, _)
tr_from(bs, key, args, i) ==
    IF i > Len(bs) THEN [text |-> MissingKey(key), log |-> <<>>]
    ELSE LET bundle == bs[i]
             m      == get_message(bundle, key)
         IN IF m = 0 THEN tr_from(bs, key, args, i + 1)
            ELSE IF bundle.messages[m].value = NoValue THEN tr_from(bs, key, args, i + 1)
            ELSE LET out == format_pattern(bundle, bundle.messages[m].value, args)
                 IN [text |-> out.text,
                     log |-> IF out.errs # <<>> THEN <<"Error(s) in translation">> ELSE <<>>]

RECURSIVE tr_from_fallthrough(_, _, _, _)
tr_from_fallthrough(bs, key, args, i) ==
    IF i > Len(bs) THEN [text |-> MissingKey(key), log |-> <<>>]
    ELSE LET bundle == bs[i]
             m      == get_message(bundle, key)
         IN IF m = 0 THEN tr_from_fallthrough(bs, key, args, i + 1)
            ELSE IF bundle.messages[m].value = NoValue
            THEN tr_from_fallthrough(bs, key, args, i + 1)
            ELSE LET out == format_pattern(bundle, bundle.messages[m].value, args)
                 IN IF out.errs # <<>> THEN tr_from_fallthrough(bs, key, args, i + 1)
                    ELSE [text |-> out.text, log |-> <<>>]

\* tr_ trying the next bundle when formatting reports errors.
tr_fallthrough(bs, key, args) == tr_from_fallthrough(bs, key, args, 1)

RECURSIVE tr_from_any_message(_, _, _, _)
tr_from_any_message(bs, key, args, i) ==
    IF i > Len(bs) THEN [text |-> MissingKey(key), log |-> <<>>]
    ELSE LET bundle == bs[i]
             m      == get_message(bundle, key)
         IN IF m = 0 THEN tr_from_any_message(bs, key, args, i + 1)
            ELSE LET out == format_pattern(bundle, bundle.messages[m].value, args)
                 IN [text |-> out.text,
                     log |-> IF out.errs # <<>> THEN <<"Error(s) in translation">> ELSE <<>>]

\* tr_ taking a message without a value for a match (an empty text).
tr_any_message(bs, key, args) == tr_from_any_message(bs, key, args, 1)

tr_(bs, key, args) == tr_from(bs, key, args, 1)

-----------------------------------------------------------------------------
(* Inputs.                                                                  *)

\* Preference strings: ja, ja_JP, zh, zh-TW, zh-Hant-HK, en-US and the
\* unparseable "e!".
CodeStrings ==
    { <<"j","a">>, <<"j","a","_","J","P">>, <<"z","h">>, <<"z","h","-","T","W">>,
      <<"z","h","-","H","a","n","t","-","H","K">>, <<"e","n","-","U","S">>,
      <<"e","!">> }

RECURSIVE SeqsUpTo(_, _)
SeqsUpTo(S, n) ==
    IF n = 0 THEN {<<>>}
    ELSE LET shorter == SeqsUpTo(S, n - 1)
         IN shorter \cup {Append(s, x) : s \in shorter, x \in S}

CodeLists == SeqsUpTo(CodeStrings, MaxCodes)

\* tr(key) passes None; trn(key, args) passes Some(args).
Args(f) == [a \in ArgNames |-> IF a \in DOMAIN f THEN f[a] ELSE NoArg]

TrKeys == {"valid-key", "invalid-key"}

TrnCalls ==
    { [key |-> "two-args-key", args |-> Args([one |-> Num(1), two |-> Str(<<"2">>)])],
      [key |-> "two-args-key", args |-> Args([one |-> Str(<<"x">>)])],
      [key |-> "plural", args |-> Args([hats |-> Num(1)])],
      [key |-> "plural", args |-> Args([hats |-> Num(3)])] }

NoCall == [op |-> "none", key |-> "", args |-> NoArgs, out |-> <<>>]

-----------------------------------------------------------------------------
(* The state machine.                                                       *)

Init ==
    /\ pc = "start"
    /\ cfg_test \in BOOLEAN
    /\ locale_codes = <<>>
    /\ langs = <<>>
    /\ supported = <<>>
    /\ locale_folder = ""
    /\ file = "Test"
    /\ bundles = <<>>
    /\ reads = <<>>
    /\ log = <<>>
    /\ op = "none"
    /\ first_call = NoCall
    /\ last_call = NoCall

\* let i18n = I18n::new(codes, folder)
New(codes, folder) ==
    /\ pc = "start"
    /\ LET r == I18n_new(codes, folder)
       IN /\ pc' = IF r.panic THEN "panicked" ELSE "root"
          /\ langs' = r.langs
          /\ supported' = r.supported
          /\ locale_folder' = r.locale_folder
    /\ locale_codes' = codes
    /\ op' = "new"
    /\ log' = <<>>
    /\ UNCHANGED <<cfg_test, file, bundles, reads, first_call, last_call>>

\* let cat = i18n.get(f)
Get(f) ==
    /\ pc \in {"root", "ready"}
    /\ LET r == I18nCategory_new(langs, supported, f, locale_folder, cfg_test)
       IN /\ pc' = IF r.panic THEN "panicked" ELSE "ready"
          /\ bundles' = IF r.panic THEN <<>> ELSE r.bundles
          /\ reads' = r.reads
          /\ log' = r.log
    /\ file' = f
    /\ op' = "get"
    /\ first_call' = NoCall
    /\ last_call' = NoCall
    /\ UNCHANGED <<cfg_test, locale_codes, langs, supported, locale_folder>>

\* A lookup that takes the answering chain's first bundle out of the catalog.
LookupConsuming(name, key, args) ==
    /\ pc = "ready"
    /\ LET r    == tr_(bundles, key, args)
           call == [op |-> name, key |-> key, args |-> args, out |-> r.text]
       IN /\ last_call' = call
          /\ first_call' = IF first_call = NoCall THEN call ELSE first_call
          /\ log' = r.log
    /\ bundles' = IF Len(bundles) > 1 THEN Tail(bundles) ELSE bundles
    /\ op' = name
    /\ UNCHANGED <<pc, cfg_test, locale_codes, langs, supported, locale_folder,
                   file, reads>>

Lookup(name, key, args) ==
    /\ pc = "ready"
    /\ LET r    == tr_(bundles, key, args)
           call == [op |-> name, key |-> key, args |-> args, out |-> r.text]
       IN /\ last_call' = call
          /\ first_call' = IF first_call = NoCall THEN call ELSE first_call
          /\ log' = r.log
    /\ op' = name
    /\ UNCHANGED <<pc, cfg_test, locale_codes, langs, supported, locale_folder,
                   file, bundles, reads>>

\* cat.tr(key)
Tr(key) == Lookup("tr", key, NoArgs)

\* cat.trn(key, args)
Trn(key, args) == Lookup("trn", key, args)

Next ==
    \/ \E codes \in CodeLists, folder \in Folders : New(codes, folder)
    \/ \E f \in TranslationFile : Get(f)
    \/ \E key \in TrKeys : Tr(key)
    \/ \E c \in TrnCalls : Trn(c.key, c.args)

Spec == Init /\ [][Next]_vars

-----------------------------------------------------------------------------
(* Properties.                                                              *)

\* The bundle holds a message for key that has a value pattern.
HasValue(bundle, key) ==
    \E i \in DOMAIN bundle.messages :
        bundle.messages[i].id = key /\ bundle.messages[i].value # NoValue

\* The bundle holds a message for key that has no value pattern.
HasValueless(bundle, key) ==
    \E i \in DOMAIN bundle.messages :
        bundle.messages[i].id = key /\ bundle.messages[i].value = NoValue

PatternOf(bundle, key) ==
    LET i == CHOOSE i \in DOMAIN bundle.messages :
                bundle.messages[i].id = key /\ bundle.messages[i].value # NoValue
    IN bundle.messages[i].value

\* Bundle i is the first of the chain with a valued message for key.
FirstMatch(i, key) ==
    /\ i \in DOMAIN bundles
    /\ HasValue(bundles[i], key)
    /\ \A j \in 1..(i - 1) : ~HasValue(bundles[j], key)

NoMatch(key) == \A i \in DOMAIN bundles : ~HasValue(bundles[i], key)

FormattedBy(i, call) ==
    format_pattern(bundles[i], PatternOf(bundles[i], call.key), call.args)

Called == pc = "ready" /\ last_call # NoCall

\* C1: tr / trn return the text formatted by the first bundle, in chain
\* order, that holds a message with a value for the key; bundles without
\* the key or with a value-less message are skipped; formatting errors
\* change neither the bundle chosen nor the fact that a text is returned.
C1_FirstMatchWins ==
    /\ op \in {"tr", "trn"} => pc = "ready"
    /\ Called =>
         \A i \in DOMAIN bundles :
            FirstMatch(i, last_call.key) => last_call.out = FormattedBy(i, last_call).text

\* C1: a lookup answered by a dialect bundle whose formatting reported
\* errors, while a later bundle holds another text for the key.
C1_Witness ==
    /\ Called
    /\ log # <<>>
    /\ \E i, j \in DOMAIN bundles :
          /\ i < j
          /\ FirstMatch(i, last_call.key)
          /\ FormattedBy(i, last_call).errs # <<>>
          /\ HasValue(bundles[j], last_call.key)
          /\ FormattedBy(j, last_call).text # last_call.out

\* C2 as stated: the diagnostic is returned if and only if no bundle of the
\* chain holds a message with a value for the key.
C2_MissingIffNoMatch ==
    Called => (last_call.out = MissingKey(last_call.key) <=> NoMatch(last_call.key))

\* C2 amended: the diagnostic is returned whenever no bundle of the chain
\* holds a message with a value for the key (value-less messages included);
\* when it is returned although some bundle holds one, it is the text that
\* the first such bundle's own pattern formats to.
C2_MissingKey ==
    Called =>
      /\ NoMatch(last_call.key) => last_call.out = MissingKey(last_call.key)
      /\ (last_call.out = MissingKey(last_call.key) /\ ~NoMatch(last_call.key)) =>
            \E i \in DOMAIN bundles :
               /\ FirstMatch(i, last_call.key)
               /\ FormattedBy(i, last_call).text = MissingKey(last_call.key)

\* C2: the diagnostic returned for a key that a dialect bundle holds as a
\* value-less message and no bundle holds with a value.
C2_Witness ==
    /\ Called
    /\ last_call.out = MissingKey(last_call.key)
    /\ NoMatch(last_call.key)
    /\ \E i \in DOMAIN bundles : HasValueless(bundles[i], last_call.key)

\* C3 as stated: new followed by get always completes, and the chain it
\* yields is never empty and ends with the bundle of the embedded resource.
C3_ChainEndsWithFallback ==
    /\ pc # "panicked"
    /\ pc = "ready" =>
         /\ bundles # <<>>
         /\ bundles[Len(bundles)].messages = data_for_fallback(file)

LanguageSamples == {<<"j", "a">>, <<"z", "h">>, <<"e", "n">>, <<"z", "z">>, NoSubtag}
ScriptSamples == {NoSubtag, <<"H", "a", "n", "t">>}
RegionSamples == {NoSubtag, <<"T", "W">>, <<"C", "N">>, <<"J", "P">>, <<"1", "5", "8">>}

SampleIds ==
    [language : LanguageSamples, script : ScriptSamples, region : RegionSamples,
     variants : {{}, {<<"p", "i", "n", "y", "i", "n">>}}]

DialectRule(id) ==
    CASE id.language = <<"j", "a">> -> "Japanese"
      [] id.language = <<"z", "h">> /\ id.region = <<"T", "W">> -> "ChineseTaiwan"
      [] id.language = <<"z", "h">> /\ id.region # <<"T", "W">> -> "ChineseMainland"
      [] OTHER -> NoDialect

\* C4: lang_dialect depends on the language and region subtags only: ja is
\* Japanese whatever the region, zh is ChineseTaiwan for region TW and
\* ChineseMainland for no or any other region, every other language has no
\* dialect; the identifiers I18n::new parsed are classified so in the Root
\* it returns.
C4_DialectRule ==
    /\ \A id \in SampleIds : lang_dialect(id) = DialectRule(id)
    /\ pc = "root" =>
         /\ \A i \in DOMAIN langs :
               /\ lang_dialect(langs[i]) = DialectRule(langs[i])
               /\ DialectRule(langs[i]) # NoDialect => DialectRule(langs[i]) \in Range(supported)
         /\ \A d \in Range(supported) : \E i \in DOMAIN langs : DialectRule(langs[i]) = d

\* C4: a root whose preferences held zh with a region other than TW next to
\* zh-TW.
C4_Witness ==
    /\ pc = "root"
    /\ supported = <<"ChineseMainland", "ChineseTaiwan">>
    /\ langs[1].region \notin {NoSubtag, <<"T", "W">>}

Mapped(d) == dialect_file_locale(d) # Todo

\* C5 as stated: every dialect has a folder name of its own, or else a
\* dialect without one fails I18n::new, so that no Root ever holds it.
C5_FolderTotalOrFailFast ==
    /\ \A d1, d2 \in LanguageDialect :
          (Mapped(d1) /\ Mapped(d2) /\ dialect_file_locale(d1) = dialect_file_locale(d2))
             => d1 = d2
    /\ \A d \in LanguageDialect :
          Mapped(d) \/ (pc \in {"root", "ready"} => d \notin Range(supported))

ParseOk(code) == ParseLanguageIdentifier(code).ok

EnUS == [language |-> <<"e", "n">>, script |-> NoSubtag, region |-> <<"U", "S">>,
         variants |-> {}]

\* C6: I18n::new never fails, and langs of the Root it returns is the
\* identifiers of the parseable preferences in the caller's order followed
\* by en-US, whatever the preferences hold.
C6_LangsThenFallback ==
    /\ op = "new" => pc = "root"
    /\ pc = "root" =>
         LET parsed == SelectSeq(locale_codes, ParseOk)
         IN /\ Len(langs) = Len(parsed) + 1
            /\ \A i \in DOMAIN parsed : langs[i] = ParseLanguageIdentifier(parsed[i]).id
            /\ langs[Len(langs)] = EnUS

\* C6: a root built from an unparseable preference and en-US itself.
C6_Witness ==
    /\ pc = "root"
    /\ \E i \in DOMAIN locale_codes : ~ParseOk(locale_codes[i])
    /\ \E i \in DOMAIN locale_codes :
          ParseOk(locale_codes[i]) /\ ParseLanguageIdentifier(locale_codes[i]).id = EnUS
    /\ langs = <<EnUS, EnUS>>

Classifies(code) ==
    ParseOk(code) /\ DialectRule(ParseLanguageIdentifier(code).id) # NoDialect

\* C7: supported of the Root that I18n::new returns is the dialects of the
\* preferences that parse and classify, in the caller's order and one per
\* occurrence; a parseable preference of an unsupported language is absent
\* from it and present in langs.
C7_SupportedInOrder ==
    pc = "root" =>
      LET cls == SelectSeq(locale_codes, Classifies)
      IN /\ Len(supported) = Len(cls)
         /\ \A i \in DOMAIN cls :
               supported[i] = DialectRule(ParseLanguageIdentifier(cls[i]).id)
         /\ \A i \in DOMAIN locale_codes :
               ParseOk(locale_codes[i]) =>
                  ParseLanguageIdentifier(locale_codes[i]).id \in Range(langs)

\* C7: the same dialect requested twice, by two different preferences.
C7_Witness ==
    /\ pc = "root"
    /\ Len(locale_codes) = 2
    /\ locale_codes[1] # locale_codes[2]
    /\ supported = <<"Japanese", "Japanese">>

\* C8 as stated: a catalog built from any other preference list with the
\* same dialect list, the same resource root and the same category returns
\* the same text for the lookup.
C8_SameDialectsSameText ==
    Called =>
      \A other \in CodeLists :
         LET r == I18n_new(other, locale_folder)
             c == I18nCategory_new(r.langs, r.supported, file, locale_folder, cfg_test)
         IN (r.supported = supported /\ ~c.panic) =>
               tr_(c.bundles, last_call.key, last_call.args).text = last_call.out

DialectPath(d) == <<locale_folder, dialect_file_locale(d), file_name(file)>>

\* The dialect's file is read, has no junk entry and no id twice.
Loads(d) ==
    LET r == read_to_string(DialectPath(d))
    IN /\ r.ok
       /\ \A i \in DOMAIN r.text : r.text[i].kind = "message"
       /\ \A i, j \in DOMAIN r.text : i # j => r.text[i].id # r.text[j].id

\* C9: the chain before the fallback bundle is the bundles of the preferred
\* dialects that were read, parsed and bound, in order, one per occurrence,
\* each bound to langs; every dialect's file is read exactly once; a failed
\* dialect does not end the build (only the dialect without a folder name
\* does).
C9_ChainOfLoadedDialects ==
    /\ pc = "ready" =>
         LET good == SelectSeq(supported, Loads)
         IN /\ Len(bundles) = Len(good) + 1
            /\ \A i \in DOMAIN good :
                  /\ bundles[i].messages = read_to_string(DialectPath(good[i])).text
                  /\ bundles[i].locales = langs
            /\ Len(reads) = Len(supported)
            /\ \A i \in DOMAIN supported : reads[i] = DialectPath(supported[i])
    /\ (pc = "panicked" /\ op = "get") => "ChineseTaiwan" \in Range(supported)

\* C9: a catalog of two preferred dialects of which the first failed and
\* the second loaded.
C9_Witness ==
    /\ pc = "ready"
    /\ Len(supported) = 2
    /\ ~Loads(supported[1])
    /\ Loads(supported[2])
    /\ Len(bundles) = 2

C10_Step ==
    /\ op' \in {"tr", "trn"} =>
          /\ bundles' = bundles
          /\ <<langs, supported, locale_folder>>' = <<langs, supported, locale_folder>>
    /\ op' = "get" =>
          <<langs, supported, locale_folder>>' = <<langs, supported, locale_folder>>

C10_Repeat ==
    (/\ first_call # NoCall
     /\ last_call.op = first_call.op
     /\ last_call.key = first_call.key
     /\ last_call.args = first_call.args) => last_call.out = first_call.out

\* C10: a tr / trn call leaves the bundle chain and the Root as they were, a
\* get call leaves the Root as it was, and a lookup made again on the same
\* catalog, after any other lookups, returns what it returned the first time.
C10_NothingMutated == [](C10_Repeat) /\ [][C10_Step]_vars

\* C10: a catalog of several bundles on which a lookup of another key has
\* followed the first one.
C10_Witness ==
    /\ pc = "ready"
    /\ Len(bundles) > 1
    /\ first_call # NoCall
    /\ last_call.key # first_call.key

====
